---- MODULE Spec2Model ----
(***************************************************************************)
(* State-machine model of the flaippy-bird simulation core: Game (frame    *)
(* loop and wiring), GameController (run state), InputHandler, the UI      *)
(* button dispatch, Bird (actor physics), Pipe and PipeManager.            *)
(*                                                                         *)
(* Numbers.  The JavaScript code computes in floating point with the       *)
(* constants 0.4, 0.1, 3, -8, 12, 13, 15, 70, 170, 250, 60.  The model     *)
(* uses fixed point: every length, position, velocity and speed is an      *)
(* integer number of TENTHS of a pixel (gravity 0.4 -> 4, speed 3 -> 30,   *)
(* radius 15 -> 150, ...), and difficulty is an integer number of tenths   *)
(* (1 -> 10, +0.1 -> +1).  All values the code produces from these         *)
(* constants by + and - are multiples of 0.1, so no value is rounded by    *)
(* the scaling; binary floating-point representation error (1.1 + 0.1 =    *)
(* 1.2000000000000002) is not modelled.                                    *)
(*                                                                         *)
(* Bird.rotation is a smoothed real with no effect on the simulation; it   *)
(* is abstracted to "zero" (exactly 0), "jump" (exactly -0.3) and          *)
(* "smoothed" (any value produced by the interpolation in Bird.update).    *)
(*                                                                         *)
(* Each event handler and each frame callback runs to completion           *)
(* (single-threaded JavaScript), so each is one atomic action.             *)
(* Particles, background and drawing are presentation and are left out;    *)
(* the only timer that touches a modelled field is the one Bird.jump       *)
(* schedules to restore the radius.                                        *)
(*                                                                         *)
(* localStorage is an environment: host.storage says whether its calls     *)
(* work ("ok"), getItem throws ("readFails") or setItem throws             *)
(* ("writeFails").  An exception leaves the handler at the throwing        *)
(* statement; thrown out of the frame callback it leaves no frame          *)
(* requested (host.loop = "aborted"), thrown out of the Game constructor   *)
(* it leaves no game at all (host.loop = "none").                          *)
(*                                                                         *)
(* Times are integer milliseconds; deltaTime, seconds in the code, is      *)
(* held in milliseconds too (0.1 s -> 100).                                *)
(***************************************************************************)
EXTENDS Integers, Sequences, FiniteSets

VARIABLES
    canvas,        \* [width, height]: canvas.width / canvas.height
    host,          \* [storage, loop]: how localStorage behaves, and whether a frame is requested
    clock,         \* [lastTime, elapsed, deltaTime, consumers]: timekeeping of Game.gameLoop, in ms
    gc,            \* GameController: running, paused, score, speed, difficulty, highScore
    storage,       \* localStorage item 'highScore': <<>> (absent) or its decimal digits
    activeScreen,  \* UI.activeScreen
    isGameRunning, \* InputHandler.isGameRunning
    bird,          \* Bird: x, y, velocity, radius, rotation, canvasHeight
    radiusTimers,  \* number of pending setTimeout callbacks scheduled by Bird.jump
    pipes,         \* PipeManager.pipes: sequence of [x, gapTop, passed]
    frame,         \* what the last frame callback did: locals of Game.gameLoop and effect counts
    twin           \* a second run of the game given the same commands and frames at
                   \* another pace (used by SpecPace only): [pace, left, timers, bird, pipes, gc]

vars == <<canvas, host, clock, gc, storage, activeScreen, isGameRunning, bird, radiusTimers, pipes, frame, twin>>

-----------------------------------------------------------------------------
(* Bounds of the model *)

\* Frames are not offered once the score has reached MaxScore.
MaxScore == 10

\* Bird.jump is not offered while MaxTimers radius timers are pending.
MaxTimers == 1

\* Where frames must keep coming (SpecFair), the player's inputs are not
\* offered once the score has reached FairMaxScore.
FairMaxScore == 1

\* The frame clock is followed up to this timestamp (ms after construction).
MaxTime == 600

-----------------------------------------------------------------------------
(* Program constants, in tenths *)

Gravity == 4
JumpStrength == 0 - 80
TerminalVelocity == 120
BirdRadius == 150
JumpRadius == 130
BaseSpeed == 30
InitialDifficulty == 10
DifficultyStep == 1
DifficultyEvery == 5
PipeWidth == 700
PipeGap == 1700
GapMargin == 600
SpawnSpacing == 2500

-----------------------------------------------------------------------------
(* Environment inputs *)

\* Canvas sizes (window.innerWidth/Height * 0.8, capped at 480 x 640).
Worlds == { [width |-> 150, height |-> 320] }

\* Canvas sizes for the specification of the Bird alone (the default 480 x 640).
BirdWorlds == { [width |-> 4800, height |-> 6400] }

\* Values of the 'highScore' item found in localStorage at load time.
StoredValues == { <<>>, <<2>> }

\* Canvas sizes for the specification of the PipeManager alone: the default
\* height and a window 250 px high (canvas 200 px); 300 px and 297 px wide,
\* so that two pipes are on the canvas at a time.
PipeWorlds ==
    { [width |-> 3000, height |-> 6400], [width |-> 3000, height |-> 2000],
      [width |-> 2970, height |-> 6400] }

\* Sampled results of Math.random() * (canvasHeight - pipeGap - 120) + 60.
GapSamples == { 0 - 1390, 0 - 20, 2500 }

\* Speeds handed to PipeManager.update: below 5 points and at 5 points
PipeSpeeds == { 30, 41 }

\* Milliseconds between two frame callbacks: the same timestamp twice, the
\* 60 Hz and 30 Hz frame times, the clamp value and its neighbour, and a
\* suspended tab
FrameGaps == { 0, 16, 17, 33, 100, 101, 250 }

\* The limit of deltaTime, 0.1 s
DeltaLimit == 100

\* Heights of the bird handed to PipeManager.update
BirdYs == { 1000, 2645 }

-----------------------------------------------------------------------------
(* localStorage conversions *)

RECURSIVE DigitsValue(_)
DigitsValue(s) ==
    IF s = <<>> THEN 0
    ELSE 10 * DigitsValue(SubSeq(s, 1, Len(s) - 1)) + s[Len(s)]

\* parseInt(localStorage.getItem('highScore') || 0)
LoadHighScore(item) == IF item = <<>> THEN 0 ELSE DigitsValue(item)

\* String(n) for a non-negative integer, as setItem stores it
RECURSIVE ToDigits(_)
ToDigits(n) == IF n < 10 THEN <<n>> ELSE Append(ToDigits(n \div 10), n % 10)

-----------------------------------------------------------------------------
(* GameController *)

GCReset(g) ==
    [g EXCEPT !.running = FALSE, !.score = 0, !.speed = BaseSpeed,
              !.difficulty = InitialDifficulty]

\* Variant of GCStart that leaves the difficulty of the previous round in place
GCStart_KeepDifficulty(g) ==
    [g EXCEPT !.running = TRUE, !.score = 0, !.speed = BaseSpeed, !.paused = FALSE]

GCStart(g) ==
    [g EXCEPT !.running = TRUE, !.score = 0, !.difficulty = InitialDifficulty,
              !.speed = BaseSpeed, !.paused = FALSE]

\* Variant of updateDifficulty that computes the speed from the old difficulty
updateDifficulty_StaleSpeed(g) ==
    IF g.score % DifficultyEvery = 0
    THEN [g EXCEPT !.difficulty = g.difficulty + DifficultyStep,
                   !.speed = BaseSpeed + g.difficulty]
    ELSE g

updateDifficulty(g) ==
    IF g.score % DifficultyEvery = 0
    THEN [g EXCEPT !.difficulty = g.difficulty + DifficultyStep,
                   !.speed = BaseSpeed + (g.difficulty + DifficultyStep)]
    ELSE g

\* Variant of incrementScore that adds two points
incrementScore_ByTwo(g) == updateDifficulty([g EXCEPT !.score = g.score + 2])

incrementScore(g) == updateDifficulty([g EXCEPT !.score = g.score + 1])

\* Variant of GCEnd that also writes when the score equals the high score
GCEnd_WriteOnTie(s) ==
    LET newHigh == s.gc.score >= s.gc.highScore
        written == newHigh /\ host.storage = "ok"
        throws  == newHigh /\ host.storage # "ok"
    IN  [s EXCEPT !.gc      = [s.gc EXCEPT !.running = FALSE,
                                           !.highScore = IF newHigh THEN s.gc.score ELSE @],
                  !.storage = IF written THEN ToDigits(s.gc.score) ELSE @,
                  !.screen  = IF throws THEN @ ELSE "gameOverScreen",
                  !.writes  = IF written THEN @ + 1 ELSE @,
                  !.ends    = @ + 1,
                  !.threw   = throws]

\* GameController.end on the part of the state it touches:
\* s = [gc, storage, screen, writes, ends, threw, cleared].  setItem is called
\* after highScore is assigned and before the game-over screen is shown; when
\* it throws, end is left there (threw).
GCEnd(s) ==
    LET newHigh == s.gc.score > s.gc.highScore
        written == newHigh /\ host.storage = "ok"
        throws  == newHigh /\ host.storage # "ok"
    IN  [s EXCEPT !.gc      = [s.gc EXCEPT !.running = FALSE,
                                           !.highScore = IF newHigh THEN s.gc.score ELSE @],
                  !.storage = IF written THEN ToDigits(s.gc.score) ELSE @,
                  !.screen  = IF throws THEN @ ELSE "gameOverScreen",
                  !.writes  = IF written THEN @ + 1 ELSE @,
                  !.ends    = @ + 1,
                  !.threw   = throws]

-----------------------------------------------------------------------------
(* Bird *)

\* Bird.x, set by the constructor and never changed
BirdX == bird.x

BirdReset(b, canvasHeight) ==
    [b EXCEPT !.y = canvasHeight \div 2, !.velocity = 0, !.rotation = "zero"]

BirdJump(b) ==
    [b EXCEPT !.velocity = JumpStrength, !.radius = JumpRadius, !.rotation = "jump"]

\* Variant of BirdUpdate without gravity
BirdUpdate_NoGravity(b, gravity, canvasHeight) ==
    LET v1  == b.velocity
        y1  == b.y + v1
        v2  == IF v1 > TerminalVelocity THEN TerminalVelocity ELSE v1
        rot == IF b.rotation = "zero" /\ v2 = 0 THEN "zero" ELSE "smoothed"
    IN  IF y1 + b.radius > canvasHeight
        THEN [ bird |-> [b EXCEPT !.y = canvasHeight - b.radius, !.velocity = v2,
                                  !.rotation = rot],
               hit  |-> TRUE ]
        ELSE IF y1 - b.radius < 0
        THEN [ bird |-> [b EXCEPT !.y = b.radius, !.velocity = 0, !.rotation = rot],
               hit  |-> FALSE ]
        ELSE [ bird |-> [b EXCEPT !.y = y1, !.velocity = v2, !.rotation = rot],
               hit  |-> FALSE ]

\* Variant of BirdUpdate without the ceiling clamp
BirdUpdate_NoCeiling(b, gravity, canvasHeight) ==
    LET v1  == b.velocity + gravity
        y1  == b.y + v1
        v2  == IF v1 > TerminalVelocity THEN TerminalVelocity ELSE v1
        rot == IF b.rotation = "zero" /\ v2 = 0 THEN "zero" ELSE "smoothed"
    IN  IF y1 + b.radius > canvasHeight
        THEN [ bird |-> [b EXCEPT !.y = canvasHeight - b.radius, !.velocity = v2,
                                  !.rotation = rot],
               hit  |-> TRUE ]
        ELSE [ bird |-> [b EXCEPT !.y = y1, !.velocity = v2, !.rotation = rot],
               hit  |-> FALSE ]

\* Variant of BirdUpdate without the terminal-velocity clamp
BirdUpdate_NoTerminal(b, gravity, canvasHeight) ==
    LET v1  == b.velocity + gravity
        y1  == b.y + v1
        rot == IF b.rotation = "zero" /\ v1 = 0 THEN "zero" ELSE "smoothed"
    IN  IF y1 + b.radius > canvasHeight
        THEN [ bird |-> [b EXCEPT !.y = canvasHeight - b.radius, !.velocity = v1,
                                  !.rotation = rot],
               hit  |-> TRUE ]
        ELSE IF y1 - b.radius < 0
        THEN [ bird |-> [b EXCEPT !.y = b.radius, !.velocity = 0, !.rotation = rot],
               hit  |-> FALSE ]
        ELSE [ bird |-> [b EXCEPT !.y = y1, !.velocity = v1, !.rotation = rot],
               hit  |-> FALSE ]

\* Variant of BirdUpdate that reports the ceiling as it reports the floor
BirdUpdate_CeilingHit(b, gravity, canvasHeight) ==
    LET v1  == b.velocity + gravity
        y1  == b.y + v1
        v2  == IF v1 > TerminalVelocity THEN TerminalVelocity ELSE v1
        rot == IF b.rotation = "zero" /\ v2 = 0 THEN "zero" ELSE "smoothed"
    IN  IF y1 + b.radius > canvasHeight
        THEN [ bird |-> [b EXCEPT !.y = canvasHeight - b.radius, !.velocity = v2,
                                  !.rotation = rot],
               hit  |-> TRUE ]
        ELSE IF y1 - b.radius < 0
        THEN [ bird |-> [b EXCEPT !.y = b.radius, !.velocity = 0, !.rotation = rot],
               hit  |-> TRUE ]
        ELSE [ bird |-> [b EXCEPT !.y = y1, !.velocity = v2, !.rotation = rot],
               hit  |-> FALSE ]

\* Bird.update: the bird after the call and the returned flag
BirdUpdate(b, gravity, canvasHeight) ==
    LET v1  == b.velocity + gravity
        y1  == b.y + v1
        v2  == IF v1 > TerminalVelocity THEN TerminalVelocity ELSE v1
        rot == IF b.rotation = "zero" /\ v2 = 0 THEN "zero" ELSE "smoothed"
    IN  IF y1 + b.radius > canvasHeight
        THEN [ bird |-> [b EXCEPT !.y = canvasHeight - b.radius, !.velocity = v2,
                                  !.rotation = rot],
               hit  |-> TRUE ]
        ELSE IF y1 - b.radius < 0
        THEN [ bird |-> [b EXCEPT !.y = b.radius, !.velocity = 0, !.rotation = rot],
               hit  |-> FALSE ]
        ELSE [ bird |-> [b EXCEPT !.y = y1, !.velocity = v2, !.rotation = rot],
               hit  |-> FALSE ]

-----------------------------------------------------------------------------
(* Pipe and PipeManager *)

\* The values Math.random() * (canvasHeight - pipeGap - 120) + 60 can take,
\* Math.random() being in [0, 1)
GapPositions(canvasHeight) ==
    LET range == canvasHeight - PipeGap - 2 * GapMargin IN
    { g \in GapSamples \cup {GapMargin} :
        IF range > 0 THEN GapMargin <= g /\ g < GapMargin + range
        ELSE IF range < 0 THEN GapMargin + range < g /\ g <= GapMargin
        ELSE g = GapMargin }

\* new Pipe(...); trueReturns is a history field, not in the code: the number
\* of times checkPassed has returned true for this pipe
NewPipe(canvasWidth, gapPosition) ==
    [x |-> canvasWidth, gapTop |-> gapPosition, passed |-> FALSE, trueReturns |-> 0]

gapBottom(p) == p.gapTop + PipeGap

checkCollision(p, bx, b) ==
    /\ bx + b.radius > p.x
    /\ bx - b.radius < p.x + PipeWidth
    /\ \/ b.y - b.radius < p.gapTop
       \/ b.y + b.radius > gapBottom(p)

\* checkCollision of script.js, the single-file build of the game: its bird
\* has the fixed radius 15 and the test uses effectiveRadius = radius * 0.95
\* (14.25); both sides of each comparison are doubled to stay in integers
scriptCheckCollision(p, bx, by) ==
    LET twiceEffectiveRadius == (2 * BirdRadius * 95) \div 100 IN
    /\ 2 * bx + twiceEffectiveRadius > 2 * p.x
    /\ 2 * bx - twiceEffectiveRadius < 2 * (p.x + PipeWidth)
    /\ \/ 2 * by - twiceEffectiveRadius < 2 * p.gapTop
       \/ 2 * by + twiceEffectiveRadius > 2 * gapBottom(p)

\* Variant of checkPassed that does not look at the passed flag
checkPassed_NoLatch(p, bx) == bx > p.x + PipeWidth

\* Pipe.checkPassed: the returned flag; the caller below sets passed with it
checkPassed(p, bx) == ~p.passed /\ bx > p.x + PipeWidth

\* Variant of isOffScreen that is true as soon as the left edge is off
isOffScreen_LeftEdge(p) == p.x < 0

\* The value Pipe.update returns, for the pipe after its move
isOffScreen(p) == p.x + PipeWidth < 0

\* The loop of PipeManager.update, from the last index down to 1:
\* acc = [pipes, collision, scoredPoint, removed]; removed is a history
\* count, not in the code: the number of pipes spliced out
RECURSIVE PipeLoop(_, _, _, _, _)
PipeLoop(acc, i, speed, bx, b) ==
    IF i = 0 THEN acc
    ELSE
      LET p      == acc.pipes[i]
          hit    == checkCollision(p, bx, b)
          pass   == checkPassed(p, bx)
          moved  == [p EXCEPT !.passed = IF pass THEN TRUE ELSE @,
                              !.trueReturns = IF pass THEN @ + 1 ELSE @,
                              !.x = p.x - speed]
          off    == isOffScreen(moved)
          ps     == IF off
                    THEN SubSeq(acc.pipes, 1, i - 1) \o SubSeq(acc.pipes, i + 1, Len(acc.pipes))
                    ELSE [acc.pipes EXCEPT ![i] = moved]
      IN  PipeLoop([ pipes       |-> ps,
                     collision   |-> acc.collision \/ hit,
                     scoredPoint |-> acc.scoredPoint \/ pass,
                     removed     |-> IF off THEN acc.removed + 1 ELSE acc.removed ],
                   i - 1, speed, bx, b)

\* Variant of needsPipe that asks for a pipe only when there is none
needsPipe_EmptyOnly(ps, canvasWidth) ==
    Len(ps) = 0

needsPipe(ps, canvasWidth) ==
    Len(ps) = 0 \/ ps[Len(ps)].x < canvasWidth - SpawnSpacing

\* Variant of PipesUpdate that tests only the pipe the loop visits first
PipesUpdate_FirstOnly(ps, speed, bx, b, canvasWidth, gapPosition) ==
    LET r == PipeLoop([pipes |-> ps, collision |-> FALSE, scoredPoint |-> FALSE,
                       removed |-> 0],
                      Len(ps), speed, bx, b)
    IN  [ pipes       |-> IF needsPipe(r.pipes, canvasWidth)
                          THEN Append(r.pipes, NewPipe(canvasWidth, gapPosition))
                          ELSE r.pipes,
          collision   |-> Len(ps) > 0 /\ checkCollision(ps[Len(ps)], bx, b),
          scoredPoint |-> r.scoredPoint,
          removed     |-> r.removed ]

\* PipeManager.update; gapPosition is the random draw used if a pipe is added
PipesUpdate(ps, speed, bx, b, canvasWidth, gapPosition) ==
    LET r == PipeLoop([pipes |-> ps, collision |-> FALSE, scoredPoint |-> FALSE,
                       removed |-> 0],
                      Len(ps), speed, bx, b)
    IN  [ pipes       |-> IF needsPipe(r.pipes, canvasWidth)
                          THEN Append(r.pipes, NewPipe(canvasWidth, gapPosition))
                          ELSE r.pipes,
          collision   |-> r.collision,
          scoredPoint |-> r.scoredPoint,
          removed     |-> r.removed ]

-----------------------------------------------------------------------------
(* UI *)

Screens == {"titleScreen", "gameOverScreen", "settingsScreen", "hud", "pauseScreen"}

\* The action of every button of a screen (UI.setupUI)
ButtonActions(screen) ==
    CASE screen = "titleScreen"    -> {"start", "settings"}
      [] screen = "gameOverScreen" -> {"restart", "menu"}
      [] screen = "settingsScreen" -> {"menu"}
      [] screen = "hud"            -> {"pause", "start"}
      [] screen = "pauseScreen"    -> {"resume", "menu"}

-----------------------------------------------------------------------------
(* Initial state: after new Game(...) *)

NoFrame == [active |-> FALSE, birdHitGround |-> FALSE, collision |-> FALSE,
            scoredPoint |-> FALSE, ends |-> 0, writes |-> 0, threw |-> FALSE,
            removed |-> 0]

\* The clock after the constructor: lastTime = performance.now() (taken as
\* time 0) and no frame computed yet
NoClock == [lastTime |-> 0, elapsed |-> 0, deltaTime |-> 0, consumers |-> {}]

\* new Game(...) in a world of worlds with a localStorage behaving as one of
\* modes.  GameController's constructor reads the high score before it builds
\* the UI and before Game builds the input handler and requests a frame: when
\* getItem throws, none of that exists.
InitGame(worlds, modes) ==
    /\ canvas \in worlds
    /\ storage \in StoredValues
    /\ host \in { [storage |-> m, loop |-> IF m = "readFails" THEN "none" ELSE "scheduled"] :
                   m \in modes }
    /\ clock = NoClock
    /\ gc = [running |-> FALSE, paused |-> FALSE, score |-> 0, speed |-> BaseSpeed,
             difficulty |-> InitialDifficulty,
             highScore |-> IF host.storage = "readFails" THEN 0 ELSE LoadHighScore(storage)]
    /\ activeScreen = "titleScreen"
    /\ isGameRunning = FALSE
    /\ bird = [x |-> canvas.width \div 3, y |-> canvas.height \div 2, velocity |-> 0,
               radius |-> BirdRadius, rotation |-> "zero", canvasHeight |-> canvas.height]
    /\ radiusTimers = 0
    /\ pipes = <<>>
    /\ frame = NoFrame

\* No second run
NoTwin == [pace |-> <<0, 0>>, left |-> <<0, 0>>, timers |-> 0,
           bird |-> <<>>, pipes |-> <<>>, gc |-> <<>>]

\* One run of the game
InitWith(worlds, modes) == InitGame(worlds, modes) /\ twin = NoTwin

\* ... with a working localStorage
InitIn(worlds) == InitWith(worlds, {"ok"})

Init == InitIn(Worlds)

\* The Game object exists: its constructor returned
constructed == host.loop # "none"

-----------------------------------------------------------------------------
(* Game: handlers wired to the input layer and the UI *)

\* Variant of isActive that ignores the pause flag
isActive_IgnoresPause == gc.running

isActive == gc.running /\ ~gc.paused

\* Variant of startGame that does not reset the PipeManager
startGame_KeepsPipes ==
    /\ gc' = GCStart(gc)
    /\ activeScreen' = "hud"
    /\ bird' = BirdReset(bird, canvas.height)
    /\ isGameRunning' = TRUE
    /\ UNCHANGED <<twin, canvas, host, clock, storage, radiusTimers, frame, pipes>>

\* Game.startGame
startGame ==
    /\ gc' = GCStart(gc)
    /\ activeScreen' = "hud"
    /\ bird' = BirdReset(bird, canvas.height)
    /\ pipes' = <<>>
    /\ isGameRunning' = TRUE
    /\ UNCHANGED <<twin, canvas, host, clock, storage, radiusTimers, frame>>

\* Game.handleJump
handleJump ==
    IF gc.running
    THEN /\ radiusTimers < MaxTimers
         /\ bird' = BirdJump(bird)
         /\ radiusTimers' = radiusTimers + 1
         /\ UNCHANGED <<twin, canvas, host, clock, gc, storage, activeScreen, isGameRunning, pipes, frame>>
    ELSE UNCHANGED vars

\* Game.togglePause
togglePause ==
    IF gc.running
    THEN /\ gc' = [gc EXCEPT !.paused = ~gc.paused]
         /\ activeScreen' = IF ~gc.paused THEN "pauseScreen" ELSE "hud"
         /\ UNCHANGED <<twin, canvas, host, clock, storage, isGameRunning, bird, radiusTimers, pipes, frame>>
    ELSE UNCHANGED vars

\* Space, ArrowUp or touchstart on the canvas (InputHandler)
KeyFlap ==
    /\ constructed
    /\ IF ~isGameRunning THEN startGame ELSE handleJump

\* KeyP, Escape, downward swipe or double tap (InputHandler)
KeyPause ==
    /\ constructed
    /\ IF isGameRunning THEN togglePause ELSE UNCHANGED vars

\* UI.processButtonAction('start' | 'restart') on a button of the active screen
ClickStart ==
    /\ constructed
    /\ ButtonActions(activeScreen) \cap {"start", "restart"} # {}
    /\ startGame

\* Variant of ClickMenu whose onMenu does not call GameController.reset
ClickMenu_NoControllerReset ==
    /\ constructed
    /\ "menu" \in ButtonActions(activeScreen)
    /\ activeScreen' = "titleScreen"
    /\ bird' = BirdReset(bird, canvas.height)
    /\ pipes' = <<>>
    /\ isGameRunning' = FALSE
    /\ UNCHANGED <<twin, canvas, host, clock, gc, storage, radiusTimers, frame>>

\* UI.processButtonAction('menu'): onMenu = GameController.reset + Game.returnToMenu
ClickMenu ==
    /\ constructed
    /\ "menu" \in ButtonActions(activeScreen)
    /\ activeScreen' = "titleScreen"
    /\ gc' = GCReset(gc)
    /\ bird' = BirdReset(bird, canvas.height)
    /\ pipes' = <<>>
    /\ isGameRunning' = FALSE
    /\ UNCHANGED <<twin, canvas, host, clock, storage, radiusTimers, frame>>

\* UI.processButtonAction('settings')
ClickSettings ==
    /\ constructed
    /\ "settings" \in ButtonActions(activeScreen)
    /\ activeScreen' = "settingsScreen"
    /\ UNCHANGED <<twin, canvas, host, clock, gc, storage, isGameRunning, bird, radiusTimers, pipes, frame>>

\* UI.processButtonAction('pause'): onPause sets paused
ClickPause ==
    /\ constructed
    /\ "pause" \in ButtonActions(activeScreen)
    /\ activeScreen' = "pauseScreen"
    /\ gc' = [gc EXCEPT !.paused = TRUE]
    /\ UNCHANGED <<twin, canvas, host, clock, storage, isGameRunning, bird, radiusTimers, pipes, frame>>

\* UI.processButtonAction('resume'): onResume clears paused
ClickResume ==
    /\ constructed
    /\ "resume" \in ButtonActions(activeScreen)
    /\ activeScreen' = "hud"
    /\ gc' = [gc EXCEPT !.paused = FALSE]
    /\ UNCHANGED <<twin, canvas, host, clock, storage, isGameRunning, bird, radiusTimers, pipes, frame>>

\* The setTimeout callback of Bird.jump
RadiusTimer ==
    /\ radiusTimers > 0
    /\ bird' = [bird EXCEPT !.radius = BirdRadius]
    /\ radiusTimers' = radiusTimers - 1
    /\ UNCHANGED <<twin, canvas, host, clock, gc, storage, activeScreen, isGameRunning, pipes, frame>>

\* Game.gameOver on s: GameController.end, then InputHandler.setGameRunning(false)
\* (cleared) unless end threw
gameOver(s) ==
    LET e == GCEnd(s) IN
    IF e.threw THEN e ELSE [e EXCEPT !.cleared = TRUE]

\* The body of Game.gameLoop while the round is active, as a function of
\* bird b, pipes ps and controller g (as in Frame below): the bird's update,
\* the round's end when it hit the ground, the pipes' update, the round's end
\* on a collision, and the point when a pipe was passed
FrameStep(b, ps, g, gapPosition) ==
    LET bu == BirdUpdate(b, Gravity, b.canvasHeight)
        s0 == [gc |-> g, storage |-> storage, screen |-> activeScreen,
               writes |-> 0, ends |-> 0, threw |-> FALSE, cleared |-> FALSE]
        s1 == IF bu.hit THEN gameOver(s0) ELSE s0
        pu == IF s1.threw
              THEN [pipes |-> ps, collision |-> FALSE, scoredPoint |-> FALSE,
                    removed |-> 0]
              ELSE PipesUpdate(ps, s1.gc.speed, b.x, bu.bird, canvas.width,
                               gapPosition)
        s2 == IF pu.collision THEN gameOver(s1) ELSE s1
        g3 == IF pu.scoredPoint /\ ~s2.threw THEN incrementScore(s2.gc) ELSE s2.gc
    IN  [ bird  |-> bu.bird,
          pipes |-> pu.pipes,
          gc    |-> g3,
          end   |-> s2,
          frame |-> [active |-> TRUE, birdHitGround |-> bu.hit,
                     collision |-> pu.collision, scoredPoint |-> pu.scoredPoint,
                     ends |-> s2.ends, writes |-> s2.writes, threw |-> s2.threw,
                     removed |-> pu.removed] ]

\* Game.gameLoop, one frame callback
\* The timekeeping of the callback is modelled apart (FrameClock); the
\* callback requests the next frame in its last statement, so an exception
\* thrown inside it ends the loop.
Frame ==
    /\ host.loop = "scheduled"
    /\ gc.score < MaxScore
    /\ IF isActive
       THEN \E gapPosition \in GapPositions(canvas.height) :
            LET bu == BirdUpdate(bird, Gravity, bird.canvasHeight)
                s0 == [gc |-> gc, storage |-> storage, screen |-> activeScreen,
                       writes |-> 0, ends |-> 0, threw |-> FALSE, cleared |-> FALSE]
                s1 == IF bu.hit THEN gameOver(s0) ELSE s0
                pu == IF s1.threw
                      THEN [pipes |-> pipes, collision |-> FALSE, scoredPoint |-> FALSE,
                            removed |-> 0]
                      ELSE PipesUpdate(pipes, s1.gc.speed, BirdX, bu.bird, canvas.width,
                                       gapPosition)
                s2 == IF pu.collision THEN gameOver(s1) ELSE s1
                g3 == IF pu.scoredPoint /\ ~s2.threw THEN incrementScore(s2.gc) ELSE s2.gc
            IN  /\ bird' = bu.bird
                /\ pipes' = pu.pipes
                /\ gc' = g3
                /\ storage' = s2.storage
                /\ activeScreen' = s2.screen
                /\ isGameRunning' = IF s2.cleared THEN FALSE ELSE isGameRunning
                /\ frame' = [active |-> TRUE, birdHitGround |-> bu.hit,
                             collision |-> pu.collision, scoredPoint |-> pu.scoredPoint,
                             ends |-> s2.ends, writes |-> s2.writes, threw |-> s2.threw,
                             removed |-> pu.removed]
                /\ host' = [host EXCEPT !.loop = IF s2.threw THEN "aborted" ELSE @]
                /\ UNCHANGED <<twin, canvas, clock, radiusTimers>>
       ELSE /\ frame' = NoFrame
            /\ UNCHANGED <<twin, canvas, host, clock, gc, storage, activeScreen, isGameRunning, bird,
                           radiusTimers, pipes>>

Next ==
    \/ KeyFlap
    \/ KeyPause
    \/ ClickStart
    \/ ClickMenu
    \/ ClickSettings
    \/ ClickPause
    \/ ClickResume
    \/ RadiusTimer
    \/ Frame

Spec == Init /\ [][Next]_vars

TypeOK ==
    /\ canvas \in Worlds \cup BirdWorlds \cup PipeWorlds
    /\ gc.running \in BOOLEAN /\ gc.paused \in BOOLEAN
    /\ gc.score \in 0..(MaxScore + 1) /\ gc.highScore \in Nat
    /\ activeScreen \in Screens
    /\ isGameRunning \in BOOLEAN
    /\ radiusTimers \in 0..MaxTimers
    /\ bird.radius \in {BirdRadius, JumpRadius}
-----------------------------------------------------------------------------
(* The Bird alone: any sequence of update, jump and reset calls *)

UpdateCall ==
    LET bu == BirdUpdate(bird, Gravity, bird.canvasHeight) IN
    /\ bird' = bu.bird
    /\ frame' = [NoFrame EXCEPT !.active = TRUE, !.birdHitGround = bu.hit]
    /\ UNCHANGED <<twin, canvas, host, clock, gc, storage, activeScreen, isGameRunning, radiusTimers, pipes>>

JumpCall ==
    /\ radiusTimers < MaxTimers
    /\ bird' = BirdJump(bird)
    /\ radiusTimers' = radiusTimers + 1
    /\ UNCHANGED <<twin, canvas, host, clock, gc, storage, activeScreen, isGameRunning, pipes, frame>>

ResetCall ==
    /\ bird' = BirdReset(bird, canvas.height)
    /\ UNCHANGED <<twin, canvas, host, clock, gc, storage, activeScreen, isGameRunning, radiusTimers, pipes, frame>>

NextBird ==
    \/ UpdateCall
    \/ JumpCall
    \/ ResetCall
    \/ RadiusTimer

SpecBird == InitIn(BirdWorlds) /\ [][NextBird]_vars
-----------------------------------------------------------------------------
(* The frame clock alone: the timekeeping of Game.gameLoop in the three     *)
(* branches of the callback (active, paused, not running)                   *)

\* Variant of FrameClock without the limit
FrameClock_NoClamp(c, currentTime) ==
    LET raw == currentTime - c.lastTime
        dt  == raw
    IN  [ lastTime  |-> currentTime,
          elapsed   |-> raw,
          deltaTime |-> dt,
          consumers |->
              {<<"background", dt>>, <<"gameController", dt>>}
              \cup (IF isActive
                    THEN {<<"bird", dt>>, <<"pipeManager", dt>>, <<"particleSystem", dt>>}
                    ELSE IF gc.running THEN {}
                    ELSE {<<"particleSystem", dt>>}) ]

\* The clock after a callback at currentTime: deltaTime is assigned the
\* difference to lastTime (elapsed keeps that first value), then limited;
\* consumers are the update calls handed this.deltaTime, with the value they
\* get.  While paused the particle system is handed the literal 0 instead.
FrameClock(c, currentTime) ==
    LET raw == currentTime - c.lastTime
        dt  == IF raw > DeltaLimit THEN DeltaLimit ELSE raw
    IN  [ lastTime  |-> currentTime,
          elapsed   |-> raw,
          deltaTime |-> dt,
          consumers |->
              {<<"background", dt>>, <<"gameController", dt>>}
              \cup (IF isActive
                    THEN {<<"bird", dt>>, <<"pipeManager", dt>>, <<"particleSystem", dt>>}
                    ELSE IF gc.running THEN {}
                    ELSE {<<"particleSystem", dt>>}) ]

\* A frame callback, as far as the clock goes
ClockFrame ==
    /\ host.loop = "scheduled"
    /\ \E gap \in FrameGaps :
          /\ clock.lastTime + gap <= MaxTime
          /\ clock' = FrameClock(clock, clock.lastTime + gap)
    /\ UNCHANGED <<twin, canvas, host, gc, storage, activeScreen, isGameRunning, bird,
                   radiusTimers, pipes, frame>>

NextClock ==
    \/ ClockFrame
    \/ ClickStart
    \/ ClickPause
    \/ ClickResume

SpecClock == InitIn(Worlds) /\ [][NextClock]_vars

-----------------------------------------------------------------------------
(* The PipeManager alone: any sequence of update, reset and resize calls,   *)
(* with the speed and the bird of each update call as inputs                *)

\* The birds an update call can be handed: inside the world, with the radius
\* of the constructor or the one Bird.jump sets
PipeBirds ==
    { [bird EXCEPT !.y = y, !.radius = r, !.rotation = "smoothed"] :
        y \in { yy \in BirdYs : yy <= bird.canvasHeight - BirdRadius },
        r \in {BirdRadius, JumpRadius} }

\* The speed argument of the next update calls, GameController.speed: it
\* grows, and only in a frame whose update reported a scored point
SetSpeed ==
    \E speed \in PipeSpeeds :
        /\ frame.scoredPoint
        /\ speed > gc.speed
        /\ gc' = [gc EXCEPT !.speed = speed]
        /\ UNCHANGED <<twin, canvas, host, clock, storage, activeScreen, isGameRunning, bird,
                       radiusTimers, pipes, frame>>

\* PipeManager.update(gc.speed, b, deltaTime)
ManagerUpdate ==
    \E b \in PipeBirds, gapPosition \in GapPositions(canvas.height) :
        LET pu == PipesUpdate(pipes, gc.speed, BirdX, b, canvas.width, gapPosition) IN
        /\ bird' = b
        /\ pipes' = pu.pipes
        /\ frame' = [NoFrame EXCEPT !.active = TRUE, !.collision = pu.collision,
                                    !.scoredPoint = pu.scoredPoint,
                                    !.removed = pu.removed]
        /\ UNCHANGED <<twin, canvas, host, clock, gc, storage, activeScreen, isGameRunning,
                       radiusTimers>>

\* PipeManager.reset, as Game.startGame and Game.returnToMenu call it: with
\* the speed back at its base value
ManagerReset ==
    /\ pipes' = <<>>
    /\ gc' = [gc EXCEPT !.speed = BaseSpeed]
    /\ UNCHANGED <<twin, canvas, host, clock, storage, activeScreen, isGameRunning, bird,
                   radiusTimers, frame>>

\* Game.handleResize: the window was resized; the canvas and the
\* PipeManager take the new size, the pipes and the bird stay as they are
ManagerResize ==
    /\ canvas' \in PipeWorlds \ {canvas}
    /\ UNCHANGED <<twin, host, clock, gc, storage, activeScreen, isGameRunning, bird,
                   radiusTimers, pipes, frame>>

NextPipes ==
    \/ SetSpeed
    \/ ManagerUpdate
    \/ ManagerReset
    \/ ManagerResize

\* The stored high score plays no part here: storage starts empty
InitPipes == InitIn(PipeWorlds) /\ storage = <<>>

SpecPipes == InitPipes /\ [][NextPipes]_vars

-----------------------------------------------------------------------------
(* Run state and the inputs, as the claims name them *)

\* The four run states, from the running/paused flags; a stopped game is
\* GameOver while the game-over screen is up and Title otherwise
RunState ==
    IF gc.running THEN (IF gc.paused THEN "Paused" ELSE "Playing")
    ELSE IF activeScreen = "gameOverScreen" THEN "GameOver" ELSE "Title"

\* The simulation variables of the claims: score, speed, difficulty, running,
\* paused, the Actor and the obstacle collection
sim == <<gc.score, gc.speed, gc.difficulty, gc.running, gc.paused, bird, pipes>>

\* start: Game.startGame reached from the keyboard/touch mapping or a button
StartInput == (KeyFlap /\ ~isGameRunning) \/ ClickStart

\* menu: the UI action 'menu'
MenuInput == ClickMenu

\* pause / resume: togglePause from the keyboard or the UI buttons
PauseInput == (KeyPause /\ isGameRunning /\ gc.running /\ ~gc.paused) \/ ClickPause
ResumeInput == (KeyPause /\ isGameRunning /\ gc.running /\ gc.paused) \/ ClickResume

ListedTransitions ==
    { <<"Title", "Playing">>, <<"Playing", "GameOver">>, <<"Playing", "Paused">>,
      <<"Paused", "Playing">>, <<"GameOver", "Title">>, <<"GameOver", "Playing">> }

-----------------------------------------------------------------------------
(* C1 *)

-----------------------------------------------------------------------------
(* C2 *)

\* The session state right after a reset
SessionReset ==
    /\ gc.score = 0
    /\ gc.speed = BaseSpeed
    /\ gc.difficulty = InitialDifficulty
    /\ pipes = <<>>
    /\ bird.y = canvas.height \div 2
    /\ bird.velocity = 0
    /\ bird.rotation = "zero"

\* C2: start and menu reset the session in the same step: right after either,
\* score = 0, speed = 3, difficulty = 1, no obstacles, the Actor at
\* canvasHeight/2 with velocity 0 and rotation 0, highScore unchanged; after
\* start running and not paused, after menu not running.
C2_StartAndMenuReset ==
    [][ /\ StartInput => /\ SessionReset'
                         /\ gc'.running /\ ~gc'.paused
                         /\ gc'.highScore = gc.highScore
        /\ MenuInput  => /\ SessionReset'
                         /\ ~gc'.running
                         /\ gc'.highScore = gc.highScore
      ]_vars

\* A fresh round started after a round that set a new high score
C2_Witness ==
    /\ gc.running /\ ~gc.paused
    /\ SessionReset
    /\ gc.highScore > LoadHighScore(<<2>>)

-----------------------------------------------------------------------------
(* C3 *)

\* C3: whenever a round has ended (game over, until the next start or menu),
\* highScore >= score.
C3_HighScoreAtRoundEnd ==
    (RunState = "GameOver") => (gc.highScore >= gc.score)

-----------------------------------------------------------------------------
(* C4 *)

\* The step ends a round: GameController.end ran in this frame
RoundEnds == gc.running /\ ~gc'.running /\ activeScreen' = "gameOverScreen"

-----------------------------------------------------------------------------
(* C5 *)

\* C5: a scored frame adds exactly 1 to score; difficulty grows by 0.1 and
\* speed becomes 3 + difficulty exactly when the new score is a multiple of 5,
\* neither changes otherwise; speed is 3 below 5 points, 4.1 at 5 and 4.2 at
\* 10 points (3 + 1 + 0.1 * floor(score / 5) from 5 points on).
C5_ScoreAndDifficulty ==
    /\ [](/\ gc.score < 5 => gc.speed = 30
          /\ gc.score >= 5 => gc.speed = 30 + 10 + (gc.score \div 5)
          /\ gc.score = 5 => gc.speed = 41
          /\ gc.score = 10 => gc.speed = 42)
    /\ [][ (Frame /\ isActive /\ frame'.scoredPoint)
              => /\ gc'.score = gc.score + 1
                 /\ IF gc'.score % 5 = 0
                    THEN /\ gc'.difficulty = gc.difficulty + 1
                         /\ gc'.speed = 30 + gc'.difficulty
                    ELSE /\ gc'.difficulty = gc.difficulty
                         /\ gc'.speed = gc.speed
         ]_vars

\* Ten points scored in a round
C5_Witness ==
    /\ gc.running
    /\ gc.score = 10
    /\ gc.speed = 42
    /\ frame.scoredPoint

-----------------------------------------------------------------------------
(* C6 *)

\* C6 as stated: in every state of a round speed = baseSpeed + difficulty,
\* with difficulty >= 1.
C6_AsStated ==
    gc.running => (gc.speed = BaseSpeed + gc.difficulty /\ gc.difficulty >= 10)

\* C6 amended: speed = baseSpeed (3) while score < 5, where difficulty is
\* still 1, and speed = baseSpeed + difficulty from the first difficulty step
\* on (score >= 5); difficulty >= 1; speed never decreases within a round.
C6_SpeedRule ==
    /\ [](/\ gc.difficulty >= 10
          /\ gc.score < 5 => (gc.speed = BaseSpeed /\ gc.difficulty = 10)
          /\ gc.score >= 5 => gc.speed = BaseSpeed + gc.difficulty)
    /\ [][ ~(StartInput \/ MenuInput) => gc'.speed >= gc.speed ]_vars

\* A round past its first difficulty step
C6_Witness ==
    /\ gc.running
    /\ gc.score >= 5
    /\ gc.speed = BaseSpeed + gc.difficulty
    /\ gc.difficulty > 10

-----------------------------------------------------------------------------
(* C7 *)

\* C7: pause and resume change only the paused flag among the simulation
\* variables, and a frame fired while running and paused changes none of the
\* Actor, the obstacles, score, speed, difficulty, highScore and the flags, so
\* they are at resume what they were at pause.
C7_PauseOnlyFlag ==
    [][ /\ PauseInput  => /\ gc' = [gc EXCEPT !.paused = TRUE]
                          /\ UNCHANGED <<bird, pipes, storage>>
        /\ ResumeInput => /\ gc' = [gc EXCEPT !.paused = FALSE]
                          /\ UNCHANGED <<bird, pipes, storage>>
        /\ (Frame /\ gc.running /\ gc.paused)
              => UNCHANGED <<gc, bird, pipes, storage>>
      ]_vars

\* A frame fired while a round with obstacles and points was paused
C7_Witness ==
    /\ RunState = "Paused"
    /\ ~frame.active
    /\ pipes # <<>>
    /\ gc.score > 0

-----------------------------------------------------------------------------
(* C8, C9: the Bird alone *)

C9_VelocityClamped == bird.velocity <= 120

\* A fall that reached the terminal velocity
C9_Witness ==
    /\ frame.active
    /\ ~frame.birdHitGround
    /\ bird.velocity = 120

-----------------------------------------------------------------------------
(* C10 *)

\* The Actor's y after the integration step of Bird.update, before clamping
Integrated == bird.y + bird.velocity + Gravity

-----------------------------------------------------------------------------
(* C11, C12: the gap of every pipe *)

\* The gapTop values of a pipe collection, in order
GapTops(ps) == [i \in 1..Len(ps) |-> ps[i].gapTop]

\* a is the end of b
IsSuffix(a, b) ==
    /\ Len(a) <= Len(b)
    /\ a = SubSeq(b, Len(b) - Len(a) + 1, Len(b))

\* The world is too low for the gap and both margins
Degenerate == canvas.height < PipeGap + 2 * GapMargin

\* C11: every pipe has, as long as it exists, gapBottom - gapTop = 170,
\* gapTop >= 60 and gapBottom <= canvasHeight - 60, in every world; the gaps
\* of the pipes that stay in the collection never change.
C11_GapWithinMargins ==
    /\ [](\A i \in 1..Len(pipes) :
            /\ gapBottom(pipes[i]) - pipes[i].gapTop = 1700
            /\ pipes[i].gapTop >= 600
            /\ gapBottom(pipes[i]) <= canvas.height - 600)
    /\ [][ \/ IsSuffix(GapTops(pipes'), GapTops(pipes))
           \/ /\ pipes' # <<>>
              /\ IsSuffix(GapTops(SubSeq(pipes', 1, Len(pipes') - 1)), GapTops(pipes))
         ]_vars

\* C12: a world too low for the gap and both margins is rejected: no pipe is
\* ever created in it (every pipe in such a world breaks a margin).
C12_DegenerateWorldRejected ==
    Degenerate => pipes = <<>>
-----------------------------------------------------------------------------
(* C13: localStorage unavailable *)

\* The ways localStorage can be unavailable
StorageFailures == {"readFails", "writeFails"}

\* The game in a browser whose localStorage is unavailable
SpecStorage == InitWith(Worlds, StorageFailures) /\ [][Next]_vars

\* C13: with localStorage unavailable the program degrades gracefully: the
\* game is constructed and keeps requesting frames, no game-over transition
\* is left half-way, and a read that fails counts as highScore 0.
C13_StorageFailureTolerated ==
    (host.storage \in StorageFailures)
        => /\ constructed
           /\ host.loop = "scheduled"
           /\ ~frame.threw
-----------------------------------------------------------------------------
(* C14 *)

\* The pipes of ps that an update at this speed leaves in the collection
Kept(ps, speed) == SelectSeq(ps, LAMBDA p : (p.x - speed) + PipeWidth >= 0)

\* C14: checkPassed is one-shot.  In every state a pipe has returned true
\* once if passed and never otherwise, and a passed pipe is behind the
\* Actor; in every update a pipe's checkPassed returns true exactly when it
\* is not passed yet and actor.x > x + width, passed is set exactly then and
\* is never cleared, and the update reports a point exactly when some pipe
\* returned true.
C14_CheckPassedOneShot ==
    /\ [](\A i \in 1..Len(pipes) :
            /\ pipes[i].trueReturns = (IF pipes[i].passed THEN 1 ELSE 0)
            /\ pipes[i].passed => BirdX > pipes[i].x + PipeWidth)
    /\ [][ ManagerUpdate =>
             LET kept == Kept(pipes, gc.speed) IN
             /\ Len(pipes') >= Len(kept)
             /\ \A i \in 1..Len(kept) :
                  LET first == ~kept[i].passed /\ BirdX > kept[i].x + PipeWidth IN
                  /\ pipes'[i].trueReturns = kept[i].trueReturns + (IF first THEN 1 ELSE 0)
                  /\ pipes'[i].passed = (kept[i].passed \/ first)
             /\ frame'.scoredPoint =
                  (\E i \in 1..Len(pipes) : ~pipes[i].passed /\ BirdX > pipes[i].x + PipeWidth)
         ]_vars

\* A passed pipe whose checkPassed was called again, with the same actor
\* position, and returned false
C14_Witness ==
    /\ frame.active
    /\ ~frame.scoredPoint
    /\ \E i \in 1..Len(pipes) :
         /\ pipes[i].passed
         /\ pipes[i].trueReturns = 1
         /\ BirdX > pipes[i].x + PipeWidth + 2 * 41
-----------------------------------------------------------------------------
(* C15 *)

\* The test of the claim, with r the full radius of the Actor (15)
Intersects(p, bx, by) ==
    /\ bx + 150 > p.x
    /\ bx - 150 < p.x + PipeWidth
    /\ \/ by - 150 < p.gapTop
       \/ by + 150 > gapBottom(p)

\* C15: the collision test is exact: for every bird handed to an update and
\* every pipe, the test is true exactly when the Actor's horizontal extent
\* [x - 15, x + 15] overlaps the pipe and its vertical extent
\* [y - 15, y + 15] leaves the gap; this holds for the test of Pipe
\* (reported by the update for the pipes together) and for the test of
\* script.js.
C15_CollisionExact ==
    [][ ManagerUpdate =>
          /\ frame'.collision =
               (\E i \in 1..Len(pipes) : Intersects(pipes[i], BirdX, bird'.y))
          /\ \A i \in 1..Len(pipes) :
               scriptCheckCollision(pipes[i], BirdX, bird'.y)
                  = Intersects(pipes[i], BirdX, bird'.y)
      ]_vars
-----------------------------------------------------------------------------
(* C16 *)

\* C16: no timer callback changes simulation state, and the Actor's radius is
\* 15 in every frame that evaluates the floor, ceiling and collision tests,
\* before and after Bird.update.
C16_TimersLeaveSimulationAlone ==
    [][ /\ RadiusTimer => UNCHANGED sim
        /\ (Frame /\ isActive) => (bird.radius = 150 /\ bird'.radius = 150)
      ]_vars

-----------------------------------------------------------------------------
(* C17 *)

\* C17: a flap changes the Actor only while Playing: in Title and GameOver the
\* input layer delivers it as start (Bird.jump is not called), and in Title,
\* Paused and GameOver it leaves the Actor's velocity and position unchanged.
C17_FlapOnlyWhilePlaying ==
    [][ KeyFlap =>
          /\ (RunState \in {"Title", "GameOver"})
                => (~isGameRunning /\ gc'.running /\ bird'.velocity # JumpStrength)
          /\ (RunState # "Playing")
                => (bird'.velocity = bird.velocity /\ bird'.y = bird.y)
      ]_vars
-----------------------------------------------------------------------------
(* C18 *)

\* C18: the deltaTime of a frame is the difference between this frame's
\* timestamp and the previous one's, limited to 0.1 s; it never exceeds
\* 0.1 s, and every update call handed deltaTime in the frame gets the
\* limited value.
C18_DeltaTimeClamped ==
    /\ [](clock.deltaTime <= 100)
    /\ [][ ClockFrame =>
             LET diff == clock'.lastTime - clock.lastTime IN
             /\ clock'.deltaTime = (IF diff > 100 THEN 100 ELSE diff)
             /\ clock'.consumers # {}
             /\ \A c \in clock'.consumers : c[2] = clock'.deltaTime /\ c[2] <= 100
         ]_vars

\* An active frame after a gap of more than 0.1 s: the bird and the pipes
\* are handed 0.1 s
C18_Witness ==
    /\ clock.elapsed > 100
    /\ clock.deltaTime = 100
    /\ {<<"bird", 100>>, <<"pipeManager", 100>>} \subseteq clock.consumers
-----------------------------------------------------------------------------
(* C19, C20 *)

\* The pipes' keeps from before the update, in their order: the first n
\* pipes of pipes' are the pipes of kept, each moved left by the speed
Continues(kept) ==
    /\ Len(pipes') >= Len(kept)
    /\ \A i \in 1..Len(kept) :
         /\ pipes'[i].x = kept[i].x - gc.speed
         /\ pipes'[i].gapTop = kept[i].gapTop

\* C19: an update creates at most one pipe, and exactly one precisely when,
\* after the pipes were moved and the off-screen ones removed, the
\* collection is empty or its last pipe has x < canvasWidth - 250; the new
\* pipe is at x = canvasWidth; the collection is never empty after an update.
C19_SpawnRule ==
    [][ ManagerUpdate =>
          LET kept  == Kept(pipes, gc.speed)
              n     == Len(kept)
              spawn == n = 0 \/ kept[n].x - gc.speed < canvas.width - 2500
          IN  /\ Continues(kept)
              /\ Len(pipes') \in {n, n + 1}
              /\ (Len(pipes') = n + 1) = spawn
              /\ spawn => (pipes'[n + 1].x = canvas.width /\ ~pipes'[n + 1].passed)
              /\ pipes' # <<>>
      ]_vars

\* An update that created a second pipe behind one that is still on the canvas
C19_Witness ==
    /\ frame.active
    /\ Len(pipes) = 2
    /\ pipes[2].x = canvas.width
    /\ pipes[1].x < canvas.width - 2500

\* The part of C20 that does not depend on the width of the canvas: the
\* pipes are in the order of their creation with strictly increasing x, an
\* update keeps the order of the pipes it keeps and puts a new pipe last, at
\* x = canvasWidth, and a resize leaves the pipes as they are.
PipesOrdered ==
    /\ [](/\ \A i \in 1..(Len(pipes) - 1) : pipes[i].x < pipes[i + 1].x
          /\ \A i \in 1..Len(pipes) : pipes[i].x <= pipes[Len(pipes)].x)
    /\ [][ /\ ManagerUpdate =>
                LET kept == Kept(pipes, gc.speed) IN
                /\ Continues(kept)
                /\ \A i \in (Len(kept) + 1)..Len(pipes') :
                     /\ i = Len(pipes')
                     /\ pipes'[i].x = canvas.width
           /\ ManagerResize => pipes' = pipes
         ]_vars

\* C20: in every state the pipes are in the order of their creation with
\* strictly increasing x, so the last pipe is the most recently created and
\* the rightmost one, and its x is at most canvasWidth.
C20_OrderedByCreation ==
    /\ PipesOrdered
    /\ [](pipes # <<>> => pipes[Len(pipes)].x <= canvas.width)
-----------------------------------------------------------------------------
(* C21 *)

\* C21: an update tests every pipe of the collection, where it stood before
\* being moved, against the bird it was handed, and reports the disjunction:
\* collision is true exactly when at least one pipe's checkCollision is true.
\* A hit does not end the processing (every kept pipe is moved and has its
\* passed flag brought up to date), and the bird after the call is the bird
\* handed in.
C21_CollisionIsDisjunction ==
    [][ ManagerUpdate =>
          LET kept == Kept(pipes, gc.speed) IN
          /\ frame'.collision =
               (\E i \in 1..Len(pipes) : checkCollision(pipes[i], BirdX, bird'))
          /\ Continues(kept)
          /\ \A i \in 1..Len(kept) :
               pipes'[i].passed = (kept[i].passed \/ BirdX > kept[i].x + PipeWidth)
          /\ bird' \in PipeBirds
          /\ bird'.x = bird.x
      ]_vars

\* An update that reported a collision with the older of two pipes while the
\* newer one, visited first, was clear of the bird
C21_Witness ==
    /\ frame.active
    /\ frame.collision
    /\ Len(pipes) = 2
    /\ checkCollision(pipes[1], BirdX, bird)
    /\ ~checkCollision(pipes[2], BirdX, bird)
    /\ pipes[2].x < canvas.width
-----------------------------------------------------------------------------
(* C22 *)

\* The pipes whose passed flag becomes true in this update: those the update
\* keeps, by their index after it, and those it removes, by their index
\* before it
NewlyPassed(speed) ==
    LET kept == Kept(pipes, speed) IN
    { <<"kept", i>> : i \in { j \in 1..Len(kept) :
                               j <= Len(pipes') /\ ~kept[j].passed /\ pipes'[j].passed } }
    \cup
    { <<"removed", i>> : i \in { j \in 1..Len(pipes) :
                                  /\ (pipes[j].x - speed) + PipeWidth < 0
                                  /\ ~pipes[j].passed
                                  /\ BirdX > pipes[j].x + PipeWidth } }

\* The number of passed pipes in the collection
PassedInCollection == Cardinality({ i \in 1..Len(pipes) : pipes[i].passed })

\* At most one passed flag becomes true in an update of the PipeManager
OnePassPerUpdate ==
    [][ ManagerUpdate =>
          /\ Cardinality(NewlyPassed(gc.speed)) <= 1
          /\ frame'.scoredPoint = (NewlyPassed(gc.speed) # {})
      ]_vars

ScrolledOut(speed) == { j \in 1..Len(pipes) : (pipes[j].x - speed) + PipeWidth < 0 }

\* C23: a pipe is removed in the update in which its moved position first
\* has x + width < 0 and never earlier.  In every state each pipe of the
\* collection has x + width >= 0; an update removes exactly the pipes
\* whose moved position has x + width < 0 and keeps the others, moved, in
\* their order; and every pipe it removes already has passed = true.
C23_RemovedWhenOffScreen ==
    /\ [](\A i \in 1..Len(pipes) : pipes[i].x + PipeWidth >= 0)
    /\ [][ ManagerUpdate =>
             LET kept == Kept(pipes, gc.speed) IN
             /\ Continues(kept)
             /\ Len(pipes') \in {Len(kept), Len(kept) + 1}
             /\ frame'.removed = Cardinality(ScrolledOut(gc.speed))
             /\ Len(kept) = Len(pipes) - Cardinality(ScrolledOut(gc.speed))
             /\ \A j \in ScrolledOut(gc.speed) : pipes[j].passed
         ]_vars

\* An update has just removed a pipe, and the pipe behind it is still there
C23_Witness ==
    /\ frame.active /\ frame.removed = 1
    /\ Len(pipes) >= 1
    /\ pipes[1].x < canvas.width

(* C24 *)

\* C24: score changes only while Playing.  A frame that ends the round
\* (GameController.end ran in it) leaves score as it was when the frame
\* began, and while no round is running score changes only by the reset of
\* the next start or menu.
C24_ScoreOnlyWhilePlaying ==
    [][ /\ (Frame /\ frame'.ends > 0) => gc'.score = gc.score
        /\ (~gc.running /\ gc'.score # gc.score)
              => (gc'.score = 0 /\ (StartInput \/ MenuInput))
      ]_vars

(* C25 *)

\* C25: the round-end transition is taken at most once per round.  No frame
\* executes Game.gameOver more than once, also when the floor and a pipe are
\* hit together, and a frame executes it only in a round that is running.
C25_RoundEndsOnce ==
    /\ [](frame.ends <= 1)
    /\ [][ (Frame /\ frame'.ends > 0) => (gc.running /\ ~gc.paused) ]_vars

(* C26 *)

\* C26: paused implies running.  In every state, GameController.paused is
\* true only while a round is running; running = false with paused = true is
\* never reached.
C26_PausedImpliesRunning == gc.paused => gc.running

(* C27 *)

\* C27: the input layer's copy of the run flag is in step with the
\* controller.  In every state InputHandler.isGameRunning equals
\* GameController.running, so that a flap is mapped to start exactly when no
\* round is running and to jump exactly when one is.
C27_InputLayerInStep == isGameRunning = gc.running

(* C28 *)

\* The distance between pipe i and the pipe created after it
Spacing(ps, i) == ps[i + 1].x - ps[i].x

\* C28: two pipes created one after the other are more than 250 apart and
\* at most 250 + speed apart, and stay at that distance.  In every state the
\* pipes of the collection are more than 250 apart and, in a world at most
\* 480 wide, there are at most 3 of them; a pipe created by an update is at
\* most 250 + the speed of that update from the pipe before it; and an
\* update leaves the distances between the pipes it keeps as they were.
C28_SpacingBounded ==
    /\ [](/\ \A i \in 1..(Len(pipes) - 1) : Spacing(pipes, i) > SpawnSpacing
          /\ canvas.width <= 4800 => Len(pipes) <= 3)
    /\ [][ ManagerUpdate =>
             LET kept == Kept(pipes, gc.speed)
                 n    == Len(kept)
             IN  /\ \A i \in 1..(n - 1) : Spacing(pipes', i) = Spacing(kept, i)
                 /\ (n >= 1 /\ Len(pipes') = n + 1)
                       => Spacing(pipes', n) <= SpawnSpacing + gc.speed
         ]_vars

-----------------------------------------------------------------------------
(* C29: two runs of the game at different paces *)

\* The time between two frame callbacks, in ms: 60 frames per second, and
\* the largest deltaTime
Paces == {16, DeltaLimit}

\* The delay of the setTimeout of Bird.jump, in ms
RestoreDelay == 100

\* Two runs start alike; this run's frames are twin.pace[1] ms apart (60
\* frames per second), the other run's twin.pace[2] ms
InitPace ==
    /\ InitGame(Worlds, {"ok"})
    /\ storage = <<>>
    /\ \E there \in Paces :
          twin = [pace |-> <<16, there>>, left |-> <<0, 0>>, timers |-> 0,
                  bird |-> bird, pipes |-> pipes, gc |-> gc]

\* The two runs agree on what the simulation step computes: the bird's y
\* and velocity, the pipes, score, speed and the run-state flags
InStep ==
    /\ twin.bird.y = bird.y
    /\ twin.bird.velocity = bird.velocity
    /\ twin.pipes = pipes
    /\ twin.gc.score = gc.score
    /\ twin.gc.speed = gc.speed
    /\ twin.gc.running = gc.running
    /\ twin.gc.paused = gc.paused

\* A radius timer has run out in one of the runs
TimerDue ==
    \/ radiusTimers > 0 /\ twin.left[1] = 0
    \/ twin.timers > 0 /\ twin.left[2] = 0

\* The setTimeout callback of Bird.jump, in each run where it is due; a due
\* timer runs before the next frame callback and the next input
PaceTimer ==
    /\ TimerDue
    /\ IF radiusTimers > 0 /\ twin.left[1] = 0
       THEN /\ bird' = [bird EXCEPT !.radius = BirdRadius]
            /\ radiusTimers' = radiusTimers - 1
       ELSE UNCHANGED <<bird, radiusTimers>>
    /\ twin' = IF twin.timers > 0 /\ twin.left[2] = 0
               THEN [twin EXCEPT !.bird.radius = BirdRadius, !.timers = @ - 1]
               ELSE twin
    /\ UNCHANGED <<canvas, host, clock, gc, storage, activeScreen, isGameRunning, pipes, frame>>

\* The start command in both runs (Game.startGame)
PaceStart ==
    /\ InStep /\ ~TimerDue
    /\ ~isGameRunning \/ ButtonActions(activeScreen) \cap {"start", "restart"} # {}
    /\ gc' = GCStart(gc)
    /\ activeScreen' = "hud"
    /\ bird' = BirdReset(bird, canvas.height)
    /\ pipes' = <<>>
    /\ isGameRunning' = TRUE
    /\ twin' = [twin EXCEPT !.gc = GCStart(@), !.bird = BirdReset(@, canvas.height),
                            !.pipes = <<>>]
    /\ UNCHANGED <<canvas, host, clock, storage, radiusTimers, frame>>

\* The flap command in both runs while a round is running (Game.handleJump)
PaceFlap ==
    /\ InStep /\ ~TimerDue
    /\ isGameRunning /\ gc.running
    /\ radiusTimers < MaxTimers /\ twin.timers < MaxTimers
    /\ bird' = BirdJump(bird)
    /\ radiusTimers' = radiusTimers + 1
    /\ twin' = [twin EXCEPT !.bird = BirdJump(@), !.timers = @ + 1,
                            !.left = <<RestoreDelay, RestoreDelay>>]
    /\ UNCHANGED <<canvas, host, clock, gc, storage, activeScreen, isGameRunning, pipes, frame>>

\* What is left of a timer after p ms
Remaining(left, p) == IF left > p THEN left - p ELSE 0

\* One frame callback in both runs (Game.gameLoop) with the same random gap
\* position, and the time to the next frame in each run
PaceFrame ==
    /\ host.loop = "scheduled"
    /\ gc.score < MaxScore
    /\ InStep /\ ~TimerDue
    /\ LET left == << Remaining(twin.left[1], twin.pace[1]),
                      Remaining(twin.left[2], twin.pace[2]) >>
       IN  IF isActive
           THEN \E gapPosition \in GapPositions(canvas.height) :
                LET r == FrameStep(bird, pipes, gc, gapPosition)
                    t == FrameStep(twin.bird, twin.pipes, twin.gc, gapPosition)
                IN  /\ bird' = r.bird
                    /\ pipes' = r.pipes
                    /\ gc' = r.gc
                    /\ storage' = r.end.storage
                    /\ activeScreen' = r.end.screen
                    /\ isGameRunning' = IF r.end.cleared THEN FALSE ELSE isGameRunning
                    /\ frame' = r.frame
                    /\ twin' = [twin EXCEPT !.bird = t.bird, !.pipes = t.pipes,
                                            !.gc = t.gc, !.left = left]
                    /\ UNCHANGED <<canvas, host, clock, radiusTimers>>
           ELSE /\ frame' = NoFrame
                /\ twin' = [twin EXCEPT !.left = left]
                /\ UNCHANGED <<canvas, host, clock, gc, storage, activeScreen,
                               isGameRunning, bird, radiusTimers, pipes>>

NextPace ==
    \/ PaceStart
    \/ PaceFlap
    \/ PaceTimer
    \/ PaceFrame

SpecPace == InitPace /\ [][NextPace]_vars

\* C29: the simulation step does not depend on deltaTime.  Two runs given
\* the same commands, the same frames and the same random gap positions,
\* with frames at different distances in time, agree after every frame on
\* the bird's y and velocity, the pipes' positions and passed flags, score,
\* speed and the run-state flags.
C29_StepIndependentOfPace == InStep

-----------------------------------------------------------------------------
(* C30: the round ends when the player stops playing *)

\* The game played with the flap key, the pause key and the START buttons,
\* first run in the browser (nothing stored)
InitFair == Init /\ storage = <<>>

\* The player's inputs, until FairMaxScore points are scored
FairFlap == KeyFlap /\ gc.score < FairMaxScore

FairPause == KeyPause /\ gc.score < FairMaxScore

FairStart == ClickStart /\ gc.score < FairMaxScore

NextFair ==
    \/ FairFlap
    \/ FairPause
    \/ FairStart
    \/ RadiusTimer
    \/ Frame

\* ... with frame callbacks that keep coming: every callback requests the
\* next one (requestAnimationFrame, last statement of gameLoop)
SpecFair == InitFair /\ [][NextFair]_vars /\ WF_vars(Frame)

\* ... and the same in a browser whose localStorage cannot be written
InitFairStorage == InitWith(Worlds, {"writeFails"}) /\ storage = <<>>

SpecFairStorage == InitFairStorage /\ [][NextFair]_vars /\ WF_vars(Frame)

\* No round is being played
RoundOver == ~gc.running

\* C30: every round, left alone, ends.  When frame callbacks keep firing and
\* from some point on no flap arrives and the game is not paused, the round
\* ends (running becomes false); and the frame loop never stops: a frame
\* callback is requested in every state.
C30_AsStated ==
    /\ (<>[][~KeyFlap]_vars /\ <>[](~gc.paused)) => []<>RoundOver
    /\ [](host.loop = "scheduled")

\* With a working localStorage: when from some point on neither a flap nor a
\* start command arrives and the game is not paused, the round ends; and a
\* frame callback is requested in every state.
C30_RoundEndsWithoutInput ==
    /\ (<>[][~KeyFlap /\ ~ClickStart]_vars /\ <>[](~gc.paused)) => []<>RoundOver
    /\ [](host.loop = "scheduled")

\* A round that the floor ended, the bird falling
C30_Witness ==
    /\ RunState = "GameOver"
    /\ frame.active /\ frame.birdHitGround /\ ~frame.collision
    /\ bird.velocity > 0
    /\ radiusTimers = 0

====
